---- MODULE Spec2Model ----
(***************************************************************************)
(* PaperPilot: the advanced-search filter conversation, the query that is  *)
(* handed to arXiv, the paged search results and the comparison list.      *)
(*                                                                         *)
(* Python strings are sequences of one-character strings, so that strip,   *)
(* replace, lower and join are computed character by character.            *)
(* Optional values (a missing user_data key, None) are the empty sequence; *)
(* a present value v is the one-element sequence <<v>>.                    *)
(***************************************************************************)
EXTENDS Integers, Sequences, FiniteSets, TLC

(***************************************************************************)
(* Bounds of the model.                                                    *)
(***************************************************************************)
\* longest result list the search collaborator returns
MaxResults == 3
\* 'more results' presses followed after one search
MaxAdvances == 5
\* distinct papers that can be offered to the comparison list
MaxPapers == 4
\* days that pass without a recorded comparison
MaxIdleDays == 1

(***************************************************************************)
(* Optional values.                                                        *)
(***************************************************************************)
None == <<>>

Some(v) == <<v>>

Get(o) == o[1]

(***************************************************************************)
(* Text.                                                                   *)
(***************************************************************************)
Digits == <<"0", "1", "2", "3", "4", "5", "6", "7", "8", "9">>

IsDigit(c) == \E i \in 1..10 : Digits[i] = c

DigitVal(c) == (CHOOSE i \in 1..10 : Digits[i] = c) - 1

UpperCase == <<"A", "B", "C", "D", "E", "F", "G", "H", "I", "J", "K", "L", "M",
               "N", "O", "P", "Q", "R", "S", "T", "U", "V", "W", "X", "Y", "Z">>

LowerCase == <<"a", "b", "c", "d", "e", "f", "g", "h", "i", "j", "k", "l", "m",
               "n", "o", "p", "q", "r", "s", "t", "u", "v", "w", "x", "y", "z">>

\* str.lower(): every upper-case letter becomes its lower-case letter
LowerChar(c) ==
    IF \E i \in 1..26 : UpperCase[i] = c
    THEN LowerCase[CHOOSE i \in 1..26 : UpperCase[i] = c]
    ELSE c

Lower(s) == [i \in 1..Len(s) |-> LowerChar(s[i])]

\* the dates handed on as they are stored
RemoveDashes_Keep(s) == s

\* str.replace('-', ''): the characters other than '-', in order
RECURSIVE RemoveDashes(_)
RemoveDashes(s) ==
    IF s = <<>> THEN <<>>
    ELSE IF Head(s) = "-" THEN RemoveDashes(Tail(s))
    ELSE <<Head(s)>> \o RemoveDashes(Tail(s))

\* the text kept as it was typed
Strip_Keep(s) == s

\* str.strip(): leading and trailing blanks removed
RECURSIVE LStrip(_)
LStrip(s) == IF s # <<>> /\ Head(s) = " " THEN LStrip(Tail(s)) ELSE s

RECURSIVE RStrip(_)
RStrip(s) ==
    IF s # <<>> /\ s[Len(s)] = " " THEN RStrip(SubSeq(s, 1, Len(s) - 1)) ELSE s

Strip(s) == RStrip(LStrip(s))

\* sep.join(parts)
RECURSIVE Join(_, _)
Join(sep, parts) ==
    IF parts = <<>> THEN <<>>
    ELSE IF Len(parts) = 1 THEN parts[1]
    ELSE parts[1] \o sep \o Join(sep, Tail(parts))

\* the elements of a list that satisfy Test, in order
SelectNonEmpty(parts) == SelectSeq(parts, LAMBDA p : p # <<>>)

\* number of positions at which sub occurs in s
CountOcc(s, sub) ==
    Cardinality({i \in 1..(Len(s) - Len(sub) + 1) :
                    SubSeq(s, i, i + Len(sub) - 1) = sub})

Contains(s, sub) == CountOcc(s, sub) > 0

\* zero-padded decimal of n in w digits
RECURSIVE Pad(_, _)
Pad(n, w) == IF w = 0 THEN <<>> ELSE Pad(n \div 10, w - 1) \o <<Digits[(n % 10) + 1]>>

\* value of a sequence of digits
RECURSIVE NumVal(_)
NumVal(s) == IF s = <<>> THEN 0 ELSE NumVal(SubSeq(s, 1, Len(s) - 1)) * 10 + DigitVal(s[Len(s)])

AllDigits(s) == \A i \in 1..Len(s) : IsDigit(s[i])

S_submittedDate == <<"s", "u", "b", "m", "i", "t", "t", "e", "d", "D", "a", "t", "e", ":", "[">>

S_TO == <<" ", "T", "O", " ">>

S_rbracket == <<"]">>

S_au == <<"a", "u", ":", "\"">>

S_quote == <<"\"">>

S_citations == <<"c", "i", "t", "a", "t", "i", "o", "n", "s", ":", ">", "=">>

S_cat == <<"c", "a", "t", ":">>

S_OR == <<" ", "O", "R", " ">>

S_AND == <<" ", "A", "N", "D", " ">>

S_lparen == <<"(">>

S_rparen == <<")">>

S_space == <<" ">>

(***************************************************************************)
(* Calendar dates: datetime.strptime(text, '%Y-%m-%d'), timedelta and      *)
(* strftime('%Y-%m-%d').                                                   *)
(***************************************************************************)
IsLeap(y) == (y % 4 = 0) /\ ((y % 100 # 0) \/ (y % 400 = 0))

DaysInMonth(y, m) ==
    IF m = 2 THEN (IF IsLeap(y) THEN 29 ELSE 28)
    ELSE IF m \in {4, 6, 9, 11} THEN 30 ELSE 31

\* the month field of strptime: 1[0-2] | 0[1-9] | [1-9]
MonthField(s) ==
    /\ Len(s) \in {1, 2}
    /\ AllDigits(s)
    /\ NumVal(s) \in 1..12

\* the day field of strptime: 3[01] | [12]\d | 0[1-9] | [1-9] | ' '[1-9]
DayField(s) ==
    \/ Len(s) \in {1, 2} /\ AllDigits(s) /\ NumVal(s) \in 1..31
    \/ Len(s) = 2 /\ s[1] = " " /\ IsDigit(s[2]) /\ DigitVal(s[2]) \in 1..9

DayVal(s) == IF s[1] = " " THEN DigitVal(s[2]) ELSE NumVal(s)

\* position of the dash that ends the month field, 0 when there is none
MonthEnd(s) ==
    IF Len(s) >= 7 /\ s[7] = "-" THEN 7
    ELSE IF Len(s) >= 8 /\ s[8] = "-" THEN 8
    ELSE 0

\* <<year, month, day>> when strptime accepts the text, None when it raises
\* ValueError: four year digits, '-', month, '-', day, nothing left over,
\* and the day exists in that month
ParseDate(s) ==
    IF /\ Len(s) >= 8
       /\ AllDigits(SubSeq(s, 1, 4))
       /\ s[5] = "-"
       /\ MonthEnd(s) # 0
       /\ MonthField(SubSeq(s, 6, MonthEnd(s) - 1))
       /\ Len(s) > MonthEnd(s)
       /\ DayField(SubSeq(s, MonthEnd(s) + 1, Len(s)))
    THEN LET y == NumVal(SubSeq(s, 1, 4))
             m == NumVal(SubSeq(s, 6, MonthEnd(s) - 1))
             d == DayVal(SubSeq(s, MonthEnd(s) + 1, Len(s)))
         IN IF y >= 1 /\ d <= DaysInMonth(y, m) THEN <<y, m, d>> ELSE None
    ELSE None

IsValidDateText(s) == ParseDate(s) # None

\* date.toordinal(): days since 0001-01-01, that day being 1
RECURSIVE DaysBeforeMonth(_, _)
DaysBeforeMonth(y, m) ==
    IF m = 1 THEN 0 ELSE DaysBeforeMonth(y, m - 1) + DaysInMonth(y, m - 1)

DaysBeforeYear(y) ==
    (y - 1) * 365 + ((y - 1) \div 4) - ((y - 1) \div 100) + ((y - 1) \div 400)

ToOrdinal(date) == DaysBeforeYear(date[1]) + DaysBeforeMonth(date[1], date[2]) + date[3]

\* date.fromordinal(n), for the years up to aroundYear: the year whose days
\* contain n, then the month, then the day that is left
FromOrdinal(n, aroundYear) ==
    LET y == CHOOSE year \in (aroundYear - 2)..aroundYear :
                 DaysBeforeYear(year) < n /\ n <= DaysBeforeYear(year + 1)
        rest == n - DaysBeforeYear(y)
        m == CHOOSE month \in 1..12 :
                 /\ DaysBeforeMonth(y, month) < rest
                 /\ rest <= DaysBeforeMonth(y, month) + DaysInMonth(y, month)
    IN  <<y, m, rest - DaysBeforeMonth(y, m)>>

\* date - timedelta(days = k)
MinusDays(date, k) == FromOrdinal(ToOrdinal(date) - k, date[1])

\* strftime('%Y-%m-%d')
FormatDate(date) == Pad(date[1], 4) \o <<"-">> \o Pad(date[2], 2) \o <<"-">> \o Pad(date[3], 2)

\* d1 <= d2 for two <<year, month, day>>
DateLeq(a, b) == ToOrdinal(a) <= ToOrdinal(b)

(***************************************************************************)
(* Inputs of the model: what the user types and taps, what the clock says, *)
(* what the transport and the search collaborator answer.                  *)
(***************************************************************************)
\* texts typed as a custom date
DateTexts ==
    { <<"2", "0", "2", "4", "-", "0", "1", "-", "3", "1">>,
      <<" ", "2", "0", "2", "4", "-", "0", "1", "-", "3", "1", " ">>,
      <<"2", "0", "2", "4", "-", "1", "-", "5">>,
      <<"2", "0", "2", "4", "-", "0", "2", "-", "3", "0">>,
      <<"3", "1", "/", "0", "1", "/", "2", "0", "2", "4">> }

\* texts typed as an author name
AuthorTexts == { <<"L", "i">>, <<" ", "L", "i", " ">>, <<" ", " ">> }

\* datetime.utcnow() when a predefined range is chosen
NowDates == { <<2024, 3, 1>> }

\* the excerpt of ARXIV_CATEGORIES the model works with: a leaf category
\* and a category with two subcategories
ARXIV_CATEGORIES ==
    { [field |-> "Physics", id |-> <<"g", "r", "-", "q", "c">>, subcategories |-> {}],
      [field |-> "Computer Science", id |-> <<"c", "s">>,
       subcategories |-> { <<"c", "s", ".", "A", "I">>, <<"c", "s", ".", "L", "G">> }] }

\* tokens carried by the cat_toggle_ buttons the menus render
ToggleTokens == { <<"g", "r", "-", "q", "c">>, <<"c", "s", ".", "A", "I">> }

\* a token no menu renders, carried by a cat_toggle_ callback all the same
ForgedTokens == { <<"x", "x", ".", "Y", "Y">> }

\* numbers carried by a citations_ callback
CitationChoices == { 10 }

\* texts typed after the Simple Search button
SimpleTexts == { <<"a", " ", "b">>, <<" ">> }

\* outcome of a display call: done, BadRequest 'Message is not modified',
\* or any other exception
Transport == {"ok", "not_modified", "error"}

\* identifiers of papers
Papers == 1..MaxPapers

\* the result list of length n, in the order the search delivers it
RECURSIVE Delivered(_)
Delivered(n) == IF n = 0 THEN <<>> ELSE <<n>> \o Delivered(n - 1)

ResultLists == { Delivered(n) : n \in 1..MaxResults }

\* what arxiv.Search answers: an exception, no result, or a result list
SearchAnswers ==
    { [kind |-> "error", results |-> <<>>], [kind |-> "ok", results |-> <<>>] }
    \cup { [kind |-> "ok", results |-> list] : list \in ResultLists }

(***************************************************************************)
(* State.                                                                  *)
(***************************************************************************)
VARIABLES
    conv,        \* state of the advanced_search ConversationHandler
    user_data,   \* context.user_data of the session
    reply,       \* what the last handler told the user
    submitted,   \* the query the last handler handed to arxiv.Search
    advances,    \* 'more results' handled since the SearchState was created
    ends,        \* how many of them answered 'end of results'
    shown        \* the paper the last handler rendered

vars == <<conv, user_data, reply, submitted, advances, ends, shown>>

CHOOSING_FILTER == "CHOOSING_FILTER"

ENTER_DATE_FROM == "ENTER_DATE_FROM"

ENTER_DATE_TO == "ENTER_DATE_TO"

ENTER_AUTHOR == "ENTER_AUTHOR"

ENTER_MIN_CITATIONS == "ENTER_MIN_CITATIONS"

\* ConversationHandler.END: no conversation is open
END == "END"

\* the dictionary initialize_filters and show_advanced_search_menu create
EmptyFilters ==
    [date_from |-> None, date_to |-> None, author |-> None,
     min_citations |-> None, categories |-> <<>>]

Init ==
    /\ conv = END
    /\ user_data = [advanced_filters |-> None, awaiting_date_to |-> None,
                    awaiting_custom_date |-> None, awaiting_author |-> None,
                    author_type |-> None, awaiting_simple_search |-> None,
                    last_search_query |-> None,
                    search_state |-> None, papers_to_compare |-> None,
                    session |-> None]
    /\ reply = "none"
    /\ submitted = None
    /\ advances = 0
    /\ ends = 0
    /\ shown = None

\* context.user_data['advanced_filters'] once the conversation has created it
Filters == Get(user_data.advanced_filters)

\* the dictionary created anew on every call
initialize_filters_Always(ud) == [ud EXCEPT !.advanced_filters = Some(EmptyFilters)]

\* initialize_filters: creates the empty dictionary when the key is missing
initialize_filters(ud) ==
    IF ud.advanced_filters = None
    THEN [ud EXCEPT !.advanced_filters = Some(EmptyFilters)]
    ELSE ud

\* the state show_advanced_search_menu returns: the menu is displayed, or
\* the display call raised anything but 'Message is not modified'
show_advanced_search_menu(tx) == IF tx = "error" THEN END ELSE CHOOSING_FILTER

MenuReply(tx) == IF tx = "error" THEN "menu_error" ELSE "menu"

\* a handler that hands nothing to arxiv.Search and renders no paper
NoSearch ==
    /\ submitted' = None
    /\ shown' = None
    /\ UNCHANGED <<advances, ends>>

\* entry point of the conversation: the advanced_search button
enter_advanced_search ==
    /\ conv = END
    /\ \E tx \in Transport :
        /\ conv' = show_advanced_search_menu(tx)
        /\ reply' = MenuReply(tx)
    /\ user_data' = initialize_filters(user_data)
    /\ NoSearch

\* back_to_filters in every state and the back_to_search_options fallback
back_to_filters ==
    /\ conv # END
    /\ \E tx \in Transport :
        /\ conv' = show_advanced_search_menu(tx)
        /\ reply' = MenuReply(tx)
    /\ user_data' = initialize_filters(user_data)
    /\ NoSearch

\* every filter_ button leading to the citations prompt
SelectionTarget_Citations(data) == ENTER_MIN_CITATIONS

\* the state handle_filter_selection returns for a filter_ button; the
\* citations button matches no branch, so the handler returns None and the
\* conversation keeps its state
SelectionTarget(data) ==
    CASE data = "filter_date" -> ENTER_DATE_FROM
      [] data = "filter_author" -> ENTER_AUTHOR
      [] data = "filter_categories" -> CHOOSING_FILTER
      [] OTHER -> CHOOSING_FILTER

\* the body of handle_filter_selection for one filter_ button
filter_selected(data) ==
    /\ \E tx \in Transport :
        IF tx = "ok" /\ data # "filter_citations"
        THEN /\ conv' = SelectionTarget(data)
             /\ reply' = data
        ELSE /\ conv' = conv
             /\ reply' = "selection_ignored"
    /\ user_data' = initialize_filters(user_data)
    /\ NoSearch

handle_filter_selection ==
    /\ conv = CHOOSING_FILTER
    /\ \E data \in {"filter_date", "filter_author", "filter_categories", "filter_citations"} :
        filter_selected(data)

\* cat_main_ and cat_sub_ buttons: a menu is rendered, nothing is written
handle_category_selection ==
    /\ conv = CHOOSING_FILTER
    /\ conv' = CHOOSING_FILTER
    /\ reply' = "category_menu"
    /\ NoSearch
    /\ UNCHANGED user_data

\* list.remove(x): the list without its first x
RECURSIVE Remove(_, _)
Remove(list, x) ==
    IF list = <<>> THEN <<>>
    ELSE IF Head(list) = x THEN Tail(list)
    ELSE <<Head(list)>> \o Remove(Tail(list), x)

InList(list, x) == \E i \in 1..Len(list) : list[i] = x

\* a toggle that never removes: a selected category stays selected
Toggle_NeverRemove(categories, category_id) ==
    IF InList(categories, category_id) THEN categories ELSE Append(categories, category_id)

\* the toggle of handle_category_toggle
Toggle(categories, category_id) ==
    IF InList(categories, category_id)
    THEN Remove(categories, category_id)
    ELSE Append(categories, category_id)

\* the menu handle_category_toggle renders again after the toggle
ToggleMenu(category_id) ==
    IF \E c \in ARXIV_CATEGORIES : c.id = category_id THEN "main_category_menu"
    ELSE IF \E c \in ARXIV_CATEGORIES : category_id \in c.subcategories THEN "subcategory_menu"
    ELSE "toggled"

\* the body of handle_category_toggle for one token; when the menu cannot
\* be rendered again the handler raises after the toggle and the
\* conversation keeps its state
toggle_category(category_id) ==
    /\ user_data' = [user_data EXCEPT !.advanced_filters =
                        Some([Filters EXCEPT !.categories = Toggle(@, category_id)])]
    /\ \E delivered \in BOOLEAN :
        reply' = IF delivered THEN ToggleMenu(category_id) ELSE "toggle_failed"
    /\ conv' = CHOOSING_FILTER
    /\ NoSearch

\* a cat_toggle_ button of a rendered menu
handle_category_toggle ==
    /\ conv = CHOOSING_FILTER
    /\ \E category_id \in ToggleTokens : toggle_category(category_id)

\* a cat_toggle_ callback built by the client: the pattern ^cat_toggle_
\* routes it to handle_category_toggle like any other
forged_category_toggle ==
    /\ conv = CHOOSING_FILTER
    /\ \E category_id \in ForgedTokens : toggle_category(category_id)

\* handle_citations_input for citations_<n>: the number is stored and the
\* menu shown
handle_citations_input(citations, tx) ==
    /\ user_data' = [user_data EXCEPT !.advanced_filters =
                        Some([Filters EXCEPT !.min_citations = Some(citations)])]
    /\ conv' = show_advanced_search_menu(tx)
    /\ reply' = MenuReply(tx)

\* a citations_<n> callback reaching the conversation: only the state
\* ENTER_MIN_CITATIONS lists a handler for it, and no handler returns that
\* state; elsewhere the conversation has no handler for the update
citations_callback(citations) ==
    /\ conv # END
    /\ \E tx \in Transport :
        IF conv = ENTER_MIN_CITATIONS
        THEN handle_citations_input(citations, tx)
        ELSE /\ conv' = conv
             /\ reply' = "unhandled"
             /\ UNCHANGED user_data
    /\ NoSearch

citations_choice == \E citations \in CitationChoices : citations_callback(citations)

\* thirty days whatever the range
RangeDays_Thirty(option) == 30

\* days subtracted for a predefined range
RangeDays(option) ==
    CASE option = "week" -> 7
      [] option = "month" -> 30
      [] OTHER -> 365

\* handle_date_input, a predefined range: both dates are written from the
\* clock, then the menu is shown
PredefinedRange(filters, option, now) ==
    [filters EXCEPT !.date_from = Some(FormatDate(MinusDays(now, RangeDays(option)))),
                    !.date_to = Some(FormatDate(now))]

\* 'Custom' setting the marker only: the dates stay as they are
CustomRange_KeepDates(ud) == [ud EXCEPT !.awaiting_custom_date = Some(TRUE)]

\* handle_date_input, 'Custom': once the prompt is displayed the marker is
\* set and both dates are cleared; awaiting_date_to is left as it is
CustomRange(ud) ==
    [ud EXCEPT !.awaiting_custom_date = Some(TRUE),
               !.advanced_filters = Some([Get(@) EXCEPT !.date_from = None, !.date_to = None])]

\* handle_date_input, date_custom
custom_range_chosen ==
    /\ \E tx \in Transport :
        IF tx = "ok"
        THEN /\ user_data' = CustomRange(initialize_filters(user_data))
             /\ conv' = ENTER_DATE_FROM
             /\ reply' = "enter_start_date"
        ELSE /\ user_data' = initialize_filters(user_data)
             /\ conv' = CHOOSING_FILTER
             /\ reply' = "date_error"
    /\ NoSearch

\* handle_date_input, date_week, date_month or date_year
predefined_range_chosen(option) ==
    /\ \E now \in NowDates, tx \in Transport :
        /\ user_data' = [user_data EXCEPT !.advanced_filters =
                            Some(PredefinedRange(Filters, option, now))]
        /\ conv' = show_advanced_search_menu(tx)
        /\ reply' = MenuReply(tx)
    /\ NoSearch

handle_date_input ==
    /\ conv = ENTER_DATE_FROM
    /\ \E option \in {"week", "month", "year", "custom"} :
        IF option = "custom" THEN custom_range_chosen ELSE predefined_range_chosen(option)

\* the state handle_custom_date_message returns on a ValueError
DateRetryState(ud) == IF ud.awaiting_date_to = None THEN ENTER_DATE_FROM ELSE ENTER_DATE_TO

\* handle_custom_date_message, the text parsed: the end date when the
\* awaiting_date_to marker is present, the start date otherwise
StoreCustomDate(ud, input_date) ==
    IF ud.awaiting_date_to # None
    THEN [ud EXCEPT !.advanced_filters = Some([Get(@) EXCEPT !.date_to = Some(input_date)]),
                    !.awaiting_date_to = None]
    ELSE [ud EXCEPT !.advanced_filters = Some([Get(@) EXCEPT !.date_from = Some(input_date)]),
                    !.awaiting_date_to = Some(TRUE)]

\* the body of handle_custom_date_message for one text; a reply that raises
\* leaves the conversation in its state after the writes
custom_date_message(text, delivered) ==
    /\ LET input_date == Strip(text) IN
        IF IsValidDateText(input_date)
        THEN /\ user_data' = StoreCustomDate(user_data, input_date)
             /\ conv' = IF ~delivered THEN conv
                        ELSE IF user_data.awaiting_date_to # None THEN CHOOSING_FILTER
                        ELSE ENTER_DATE_TO
             /\ reply' = IF ~delivered THEN "date_reply_failed"
                         ELSE IF user_data.awaiting_date_to # None THEN "date_range_set"
                         ELSE "enter_end_date"
        ELSE /\ user_data' = user_data
             /\ conv' = IF delivered THEN DateRetryState(user_data) ELSE conv
             /\ reply' = IF delivered THEN "invalid_date" ELSE "date_reply_failed"
    /\ NoSearch

\* a text message in ENTER_DATE_FROM or ENTER_DATE_TO
handle_custom_date_message ==
    /\ conv \in {ENTER_DATE_FROM, ENTER_DATE_TO}
    /\ \E text \in DateTexts, delivered \in BOOLEAN : custom_date_message(text, delivered)

\* handle_author_input, an author_exact or author_last button
handle_author_type ==
    /\ conv = ENTER_AUTHOR
    /\ \E author_type \in {"exact", "last"}, tx \in Transport :
        IF tx = "ok"
        THEN /\ user_data' = [user_data EXCEPT !.author_type = Some(author_type),
                                               !.awaiting_author = Some(TRUE)]
             /\ conv' = ENTER_AUTHOR
             /\ reply' = "enter_author_name"
        ELSE /\ user_data' = [user_data EXCEPT !.author_type = Some(author_type)]
             /\ conv' = CHOOSING_FILTER
             /\ reply' = "author_error"
    /\ NoSearch

\* handle_author_input for one text message; when the rejection of a blank
\* name cannot be sent, the except branch answers and returns CHOOSING_FILTER
author_text(text, tx) ==
    /\ LET author == Strip(text) IN
        IF user_data.awaiting_author # Some(TRUE)
        THEN /\ user_data' = user_data
             /\ conv' = CHOOSING_FILTER
             /\ reply' = "author_not_awaited"
        ELSE IF author = <<>>
        THEN /\ user_data' = user_data
             /\ conv' = IF tx = "error" THEN CHOOSING_FILTER ELSE ENTER_AUTHOR
             /\ reply' = IF tx = "error" THEN "author_error" ELSE "invalid_author"
        ELSE /\ user_data' = [user_data EXCEPT
                                 !.advanced_filters = Some([Get(@) EXCEPT !.author = Some(author)]),
                                 !.awaiting_author = Some(FALSE)]
             /\ conv' = show_advanced_search_menu(tx)
             /\ reply' = MenuReply(tx)
    /\ NoSearch

\* handle_author_input, a text message
handle_author_input ==
    /\ conv = ENTER_AUTHOR
    /\ \E text \in AuthorTexts, tx \in Transport : author_text(text, tx)

\* cancel_search, the /cancel command and the back_to_main fallback.
\* notified tells whether the 'Search cancelled' message went through,
\* error_sent whether the message of the except branch did; when that one
\* raises too the handler raises and the conversation keeps its state
cancel_search ==
    /\ conv # END
    /\ \E notified \in BOOLEAN, error_sent \in BOOLEAN :
        /\ conv' = IF notified \/ error_sent THEN END ELSE conv
        /\ reply' = IF notified THEN "cancelled"
                    ELSE IF error_sent THEN "cancel_error"
                    ELSE "cancel_raised"
    /\ NoSearch
    /\ UNCHANGED user_data

(***************************************************************************)
(* The query.                                                              *)
(***************************************************************************)
\* truth value of an optional text: None and '' are false
Truthy(o) == o # None /\ Get(o) # <<>>

\* str(n) of a natural number
RECURSIVE Str(_)
Str(n) == IF n < 10 THEN <<Digits[n + 1]>> ELSE Str(n \div 10) \o <<Digits[(n % 10) + 1]>>

\* submittedDate:[F TO T] with the dashes of both dates removed
DateClause(filters) ==
    S_submittedDate \o RemoveDashes(Get(filters.date_from)) \o S_TO
        \o RemoveDashes(Get(filters.date_to)) \o S_rbracket

\* au:"name"
AuthorClause(filters) == S_au \o Strip(Get(filters.author)) \o S_quote

CitationsClause(filters) == S_citations \o Str(Get(filters.min_citations))

\* (cat:a OR cat:b), the tokens lower-cased by handle_filter_execute
LoweredCategoryClause(filters) ==
    S_lparen
        \o Join(S_OR, [i \in 1..Len(filters.categories) |-> S_cat \o Lower(filters.categories[i])])
        \o S_rparen

\* (cat:a OR cat:b), the tokens as stored, by execute_search
CategoryClause(filters) ==
    S_lparen
        \o Join(S_OR, [i \in 1..Len(filters.categories) |-> S_cat \o filters.categories[i]])
        \o S_rparen

HasDates(filters) == Truthy(filters.date_from) /\ Truthy(filters.date_to)

HasCitations(filters) == filters.min_citations # None /\ Get(filters.min_citations) # 0

\* search_parts of handle_filter_execute: date, author, citations, categories
search_parts(filters) ==
    (IF HasDates(filters) THEN <<DateClause(filters)>> ELSE <<>>)
    \o (IF Truthy(filters.author) THEN <<AuthorClause(filters)>> ELSE <<>>)
    \o (IF HasCitations(filters) THEN <<CitationsClause(filters)>> ELSE <<>>)
    \o (IF filters.categories # <<>> THEN <<LoweredCategoryClause(filters)>> ELSE <<>>)

\* search_query of handle_filter_execute
search_query(filters) == Join(S_AND, search_parts(filters))

\* search_query_parts of execute_search: the base query, then the clauses of
\* the advanced filters when user_data holds them
search_query_parts(query, advanced_filters) ==
    <<query>> \o
    (IF advanced_filters = None THEN <<>>
     ELSE LET filters == Get(advanced_filters) IN
          (IF HasDates(filters) THEN <<DateClause(filters)>> ELSE <<>>)
          \o (IF Truthy(filters.author) THEN <<AuthorClause(filters)>> ELSE <<>>)
          \o (IF filters.categories # <<>> THEN <<CategoryClause(filters)>> ELSE <<>>))

Parenthesized(part) == S_lparen \o part \o S_rparen

\* final_query of execute_search: every non-empty part in parentheses,
\* joined with AND
final_query(query, advanced_filters) ==
    LET parts == SelectNonEmpty(search_query_parts(query, advanced_filters))
    IN Join(S_AND, [i \in 1..Len(parts) |-> Parenthesized(parts[i])])

(***************************************************************************)
(* execute_search.                                                         *)
(***************************************************************************)
\* what the surroundings of one search do: the channel subscription check,
\* the 'Searching...' reply, the answer of arxiv.Search, the display of the
\* first result
SearchEnvs ==
    LET env(subscribed, loading, answer, show) ==
            [subscribed |-> subscribed, loading |-> loading, answer |-> answer, show |-> show]
        nothing == [kind |-> "ok", results |-> <<>>]
    IN  { env(FALSE, TRUE, nothing, TRUE), env(TRUE, FALSE, nothing, TRUE) }
        \cup { env(TRUE, TRUE, answer, TRUE) : answer \in SearchAnswers }
        \cup { env(TRUE, TRUE, [kind |-> "ok", results |-> list], FALSE) : list \in ResultLists }

\* a SearchState whose cursor starts at the second result
NewSearchState_Second(results) == [results |-> results, current_index |-> 1]

\* the SearchState execute_search and get_latest_papers create
NewSearchState(results) == [results |-> results, current_index |-> 0]

\* the test left out: every request goes on to the search
NothingToSearch_Skipped(args, ud) == FALSE

\* the first test of execute_search: no argument and no earlier query
NothingToSearch(args, ud) == args = <<>> /\ ud.last_search_query = None

\* execute_search with its subscription_required wrapper, as the values it
\* leaves: user_data, the query submitted, the reply, the paper rendered,
\* whether a SearchState was created and whether an exception left it
execute_search(ud, args, origin, env) ==
    LET quiet == [user_data |-> ud, submitted |-> None, reply |-> "join_required",
                  shown |-> None, fresh |-> FALSE, raised |-> FALSE]
        query == IF args # <<>> THEN Join(S_space, args)
                 ELSE IF ud.last_search_query = None THEN <<>>
                 ELSE Get(ud.last_search_query)
        final == final_query(query, ud.advanced_filters)
        sent == [quiet EXCEPT !.submitted = Some([origin |-> origin, query |-> final])]
    IN  IF ~env.subscribed THEN quiet
        ELSE IF NothingToSearch(args, ud)
        THEN [quiet EXCEPT !.reply = "no_query"]
        ELSE IF ~env.loading THEN [quiet EXCEPT !.reply = "search_aborted", !.raised = TRUE]
        ELSE IF env.answer.kind = "error" THEN [sent EXCEPT !.reply = "search_error"]
        ELSE IF env.answer.results = <<>> THEN [sent EXCEPT !.reply = "no_results"]
        ELSE [sent EXCEPT
                !.user_data = [ud EXCEPT !.search_state = Some(NewSearchState(env.answer.results))],
                !.fresh = TRUE,
                !.reply = IF env.show THEN "result_shown" ELSE "search_error",
                !.shown = IF env.show THEN Some(env.answer.results[1]) ELSE None]

\* the variables after a handler has run execute_search
AfterSearch(result) ==
    /\ user_data' = result.user_data
    /\ submitted' = result.submitted
    /\ shown' = result.shown
    /\ advances' = IF result.fresh THEN 0 ELSE advances
    /\ ends' = IF result.fresh THEN 0 ELSE ends

\* handle_filter_execute: the execute_search button in CHOOSING_FILTER.
\* delivered tells whether the display call of the handler went through.
\* When it raises, the except branch reports the error and ends the
\* conversation.  Once the search has run, error_sent tells whether that
\* report went through; when it raises too, the handler raises and the
\* conversation keeps its state.
handle_filter_execute ==
    /\ conv = CHOOSING_FILTER
    /\ \E delivered \in BOOLEAN :
        LET filters == Filters IN
            IF search_parts(filters) = <<>>
            THEN /\ conv' = IF delivered THEN CHOOSING_FILTER ELSE END
                 /\ reply' = IF delivered THEN "no_filters" ELSE "execute_error"
                 /\ NoSearch
                 /\ UNCHANGED user_data
            ELSE IF ~delivered
            THEN /\ conv' = END
                 /\ reply' = "execute_error"
                 /\ NoSearch
                 /\ UNCHANGED user_data
            ELSE \E env \in SearchEnvs :
                 LET ud == [user_data EXCEPT !.last_search_query = Some(search_query(filters))]
                     result == execute_search(ud, <<search_query(filters)>>, "advanced", env)
                 IN  /\ AfterSearch(result)
                     /\ reply' = IF result.raised THEN "execute_error" ELSE result.reply
                     /\ IF result.raised
                        THEN \E error_sent \in BOOLEAN : conv' = IF error_sent THEN END ELSE conv
                        ELSE conv' = END

(***************************************************************************)
(* Searches outside the conversation and the paging of the results.        *)
(***************************************************************************)
\* context.args of a /search command
CommandArgs == { << <<"m", "l">> >> }

\* handle_search with arguments: execute_search on context.args
handle_search ==
    /\ \E args \in CommandArgs, env \in SearchEnvs :
        LET result == execute_search(user_data, args, "command", env)
        IN  /\ AfterSearch(result)
            /\ reply' = result.reply
    /\ UNCHANGED conv

\* str.split(): the maximal runs of characters that are not blank
RECURSIVE Split(_)
Split(text) ==
    LET s == LStrip(text)
        RECURSIVE WordLen(_)
        WordLen(i) == IF i > Len(s) \/ s[i] = " " THEN i - 1 ELSE WordLen(i + 1)
    IN  IF s = <<>> THEN <<>>
        ELSE LET n == WordLen(1)
             IN <<SubSeq(s, 1, n)>> \o Split(SubSeq(s, n + 1, Len(s)))

\* handle_search_options, the simple_search button: once the prompt is
\* displayed the marker is set
handle_search_options ==
    /\ \E subscribed \in BOOLEAN, tx \in Transport :
        IF ~subscribed
        THEN /\ reply' = "join_required"
             /\ UNCHANGED user_data
        ELSE IF tx = "ok"
        THEN /\ reply' = "enter_search_terms"
             /\ user_data' = [user_data EXCEPT !.awaiting_simple_search = Some(TRUE)]
        ELSE /\ reply' = "options_error"
             /\ UNCHANGED user_data
    /\ NoSearch
    /\ UNCHANGED conv

\* handle_simple_search_input for one text, while the marker is set
simple_search_text(text) ==
    /\ user_data.awaiting_simple_search = Some(TRUE)
    /\ \E env \in SearchEnvs :
        LET ud == [user_data EXCEPT !.awaiting_simple_search = Some(FALSE)]
            result == execute_search(ud, Split(text), "simple", env)
        IN  /\ AfterSearch(result)
            /\ reply' = result.reply
    /\ UNCHANGED conv

handle_simple_search_input == \E text \in SimpleTexts : simple_search_text(text)

S_latestTail == <<"0", "0", "0", "0", " ", "T", "O", " ",
                  "9", "9", "9", "9", "9", "9", "9", "9", "9", "9", "9", "9", "]">>

\* date_query of get_latest_papers
date_query(now) ==
    S_submittedDate \o RemoveDashes(FormatDate(MinusDays(now, RangeDays("week")))) \o S_latestTail

\* get_latest_papers with its subscription_required wrapper
get_latest_papers ==
    /\ \E now \in NowDates, env \in SearchEnvs :
        LET sent == Some([origin |-> "latest", query |-> date_query(now)])
            found == env.answer.kind = "ok" /\ env.answer.results # <<>>
        IN  IF ~env.subscribed \/ ~env.loading
            THEN /\ reply' = IF env.subscribed THEN "search_aborted" ELSE "join_required"
                 /\ NoSearch
                 /\ UNCHANGED user_data
            ELSE /\ submitted' = sent
                 /\ user_data' = IF found
                                 THEN [user_data EXCEPT
                                          !.search_state = Some(NewSearchState(env.answer.results))]
                                 ELSE user_data
                 /\ advances' = IF found THEN 0 ELSE advances
                 /\ ends' = IF found THEN 0 ELSE ends
                 /\ shown' = IF found /\ env.show THEN Some(env.answer.results[1]) ELSE None
                 /\ reply' = IF env.answer.kind = "error" THEN "latest_error"
                             ELSE IF ~found THEN "no_latest"
                             ELSE IF env.show THEN "result_shown" ELSE "latest_error"
    /\ UNCHANGED conv

\* the increment lost: the cursor is read and never written back
NextIndex_Stuck(current_index) == current_index

\* the increment of handle_more_results
NextIndex(current_index) == current_index + 1

\* the bounds check of handle_more_results
PastEnd(current_index, results) == current_index >= Len(results)

\* handle_more_results: the more_results button. Python indexes results
\* from 0, the sequences here from 1.
handle_more_results ==
    /\ advances < MaxAdvances
    /\ \E subscribed \in BOOLEAN, tx \in Transport :
        IF ~subscribed
        THEN /\ reply' = "join_required"
             /\ shown' = None
             /\ UNCHANGED <<user_data, advances, ends>>
        ELSE IF user_data.search_state = None
        THEN /\ reply' = "no_search_session"
             /\ shown' = None
             /\ UNCHANGED <<user_data, advances, ends>>
        ELSE LET state == Get(user_data.search_state)
                 current_index == NextIndex(state.current_index)
             IN  /\ user_data' = [user_data EXCEPT !.search_state =
                                     Some([state EXCEPT !.current_index = current_index])]
                 /\ advances' = advances + 1
                 /\ IF PastEnd(current_index, state.results)
                    THEN /\ reply' = "end_of_results"
                         /\ ends' = ends + 1
                         /\ shown' = None
                    ELSE /\ reply' = IF tx = "ok" THEN "next_result" ELSE "show_error"
                         /\ ends' = ends
                         /\ shown' = Some(state.results[current_index + 1])
    /\ submitted' = None
    /\ UNCHANGED conv

(***************************************************************************)
(* The comparison list and the comparison counter.                         *)
(***************************************************************************)
MAX_PAPERS_TO_COMPARE == 3

\* UserSession.daily_limit
daily_limit == 10

\* UserSession(): no comparison counted, last_activity now
NewSession == [comparison_count |-> 0, idle_days |-> 0]

\* the duplicate test looking at the paper added last only
AlreadyListed_LastOnly(papers_list, paper) ==
    papers_list # <<>> /\ papers_list[Len(papers_list)] = paper

\* the duplicate test of add_paper_to_comparison, by entry_id
AlreadyListed(papers_list, paper) == \E i \in 1..Len(papers_list) : papers_list[i] = paper

\* the list add_paper_to_comparison works on: created empty when missing
ListOf(ud) == IF ud.papers_to_compare = None THEN <<>> ELSE Get(ud.papers_to_compare)

\* add_paper_to_comparison: the compare_add_ button; found tells whether
\* arXiv returned the paper, delivered whether the confirmation sent after
\* the append went through
add_paper_to_comparison ==
    /\ \E paper \in Papers, subscribed \in BOOLEAN, found \in BOOLEAN, delivered \in BOOLEAN :
        IF ~subscribed
        THEN /\ reply' = "join_required"
             /\ UNCHANGED user_data
        ELSE LET papers_list == ListOf(user_data) IN
             IF ~found
             THEN /\ reply' = "add_error"
                  /\ user_data' = [user_data EXCEPT !.papers_to_compare = Some(papers_list)]
             ELSE IF AlreadyListed(papers_list, paper)
             THEN /\ reply' = "already_in_list"
                  /\ user_data' = [user_data EXCEPT !.papers_to_compare = Some(papers_list)]
             ELSE /\ reply' = IF delivered THEN "paper_added" ELSE "add_error"
                  /\ user_data' = [user_data EXCEPT
                                      !.papers_to_compare = Some(Append(papers_list, paper))]
    /\ NoSearch
    /\ UNCHANGED conv

\* the list left as it is
Cleared_Kept(papers_list) == papers_list

\* context.user_data['papers_to_compare'] = []
Cleared(papers_list) == <<>>

\* UserSession.can_compare: the counter restarts when a day has passed
\* since last_activity
AfterReset(session) ==
    IF session.idle_days >= 1 THEN [session EXCEPT !.comparison_count = 0] ELSE session

\* no limit: every request may compare
can_compare_Always(session) == TRUE

can_compare(session) == AfterReset(session).comparison_count < daily_limit

\* UserSession.record_comparison
record_comparison(session) ==
    [session EXCEPT !.comparison_count = @ + 1, !.idle_days = 0]

\* the size test asking for one paper only
TooFew_One(papers) == Len(papers) < 1

\* the size test of generate_comparison
TooFew(papers) == Len(papers) < 2

\* generate_comparison: the /compare command; done tells whether the
\* analysis and its delivery went through
generate_comparison ==
    /\ \E subscribed \in BOOLEAN, done \in BOOLEAN :
        IF ~subscribed
        THEN /\ reply' = "join_required"
             /\ UNCHANGED user_data
        ELSE LET session == IF user_data.session = None THEN NewSession
                            ELSE Get(user_data.session)
                 checked == AfterReset(session)
                 ud == [user_data EXCEPT !.session = Some(checked)]
             IN  IF ~can_compare(session)
                 THEN /\ reply' = "daily_limit"
                      /\ user_data' = ud
                 ELSE IF ListOf(user_data) = <<>>
                 THEN /\ reply' = "no_papers"
                      /\ user_data' = ud
                 ELSE IF TooFew(ListOf(user_data))
                 THEN /\ reply' = "need_two_papers"
                      /\ user_data' = ud
                 ELSE IF ~done
                 THEN /\ reply' = "compare_failed"
                      /\ user_data' = ud
                 ELSE /\ reply' = "compared"
                      /\ user_data' = [ud EXCEPT !.session = Some(record_comparison(checked)),
                                                 !.papers_to_compare = Some(Cleared(Get(@)))]
    /\ NoSearch
    /\ UNCHANGED conv

\* clear_comparison: the /clear_comparison command
clear_comparison ==
    /\ user_data' = IF user_data.papers_to_compare # None
                    THEN [user_data EXCEPT !.papers_to_compare = Some(Cleared(Get(@)))]
                    ELSE user_data
    /\ reply' = "comparison_cleared"
    /\ NoSearch
    /\ UNCHANGED conv

\* the clock: one more day since the session's last_activity
day_passes ==
    /\ user_data.session # None
    /\ Get(user_data.session).idle_days < MaxIdleDays
    /\ user_data' = [user_data EXCEPT !.session = Some([Get(@) EXCEPT !.idle_days = @ + 1])]
    /\ reply' = "none"
    /\ NoSearch
    /\ UNCHANGED conv

(***************************************************************************)
(* Specifications.  The conversation is explored in two parts, a session   *)
(* that edits the date filter and a session that edits the author and the  *)
(* category filters; both enter, leave, execute and cancel.                *)
(***************************************************************************)
\* the conversation of a user who works on the date filter
DatesNext ==
    \/ enter_advanced_search
    \/ back_to_filters
    \/ handle_filter_selection
    \/ handle_date_input
    \/ handle_custom_date_message
    \/ handle_filter_execute
    \/ cancel_search

\* the conversation of a user who works on the author and the categories
CategoriesNext ==
    \/ enter_advanced_search
    \/ back_to_filters
    \/ handle_filter_selection
    \/ handle_category_selection
    \/ handle_category_toggle
    \/ handle_author_type
    \/ handle_author_input
    \/ handle_filter_execute
    \/ cancel_search

\* searches and the paging of their results
NavNext ==
    \/ handle_search
    \/ get_latest_papers
    \/ handle_more_results

\* the comparison list
CompareNext ==
    \/ add_paper_to_comparison
    \/ generate_comparison
    \/ clear_comparison
    \/ day_passes

\* the menus of the conversation, with the callbacks no menu offers
MenuNext ==
    \/ enter_advanced_search
    \/ back_to_filters
    \/ handle_filter_selection
    \/ handle_category_selection
    \/ handle_category_toggle
    \/ forged_category_toggle
    \/ citations_choice
    \/ cancel_search

\* an advanced search and the searches that follow it
SearchNext ==
    \/ enter_advanced_search
    \/ handle_category_toggle
    \/ handle_filter_execute
    \/ cancel_search
    \/ handle_search
    \/ handle_search_options
    \/ handle_simple_search_input

\* the conversation of a user who asks for the citations filter, picks
\* categories and executes
CitationsNext ==
    \/ enter_advanced_search
    \/ back_to_filters
    \/ handle_filter_selection
    \/ citations_choice
    \/ handle_category_toggle
    \/ handle_filter_execute
    \/ cancel_search

Next ==
    DatesNext \/ CategoriesNext \/ NavNext \/ CompareNext \/ MenuNext \/ SearchNext
        \/ CitationsNext

Spec == Init /\ [][Next]_vars

SpecDates == Init /\ [][DatesNext]_vars

SpecCategories == Init /\ [][CategoriesNext]_vars

SpecNav == Init /\ [][NavNext]_vars

SpecCompare == Init /\ [][CompareNext]_vars

SpecMenu == Init /\ [][MenuNext]_vars

SpecSearch == Init /\ [][SearchNext]_vars

SpecCitations == Init /\ [][CitationsNext]_vars

(***************************************************************************)
(* Properties.                                                             *)
(***************************************************************************)
HasFilters == user_data.advanced_filters # None

\* the query of an advanced search, when the last handler submitted one
AdvancedQuery == Get(submitted).query

AdvancedSubmitted == submitted # None /\ Get(submitted).origin = "advanced"

\* C1: the query an advanced search hands to arXiv holds the clause of every
\* filter that is set exactly once and no clause of a filter that is not
\* set: one submittedDate range for the dates, one au: phrase for the
\* author, one cat: term for each category.
C1_OneClausePerFilter ==
    AdvancedSubmitted =>
        /\ CountOcc(AdvancedQuery, S_submittedDate) = (IF HasDates(Filters) THEN 1 ELSE 0)
        /\ CountOcc(AdvancedQuery, S_au) = (IF Truthy(Filters.author) THEN 1 ELSE 0)
        /\ CountOcc(AdvancedQuery, S_cat) = Len(Filters.categories)
        /\ CountOcc(AdvancedQuery, S_citations) = (IF HasCitations(Filters) THEN 1 ELSE 0)

\* no filter of the FilterSet is set
NoFilterSet(filters) ==
    /\ filters.date_from = None
    /\ filters.date_to = None
    /\ filters.author = None
    /\ filters.min_citations = None
    /\ filters.categories = <<>>

\* C2: an execute with no filter set keeps the conversation in
\* CHOOSING_FILTER, reports the missing filters, leaves user_data as it was
\* and submits no search; an execute ends the conversation only when some
\* filter is set.
C2_ExecuteNeedsFilter ==
    [][handle_filter_execute =>
         IF NoFilterSet(Filters)
         THEN /\ conv' = CHOOSING_FILTER
              /\ reply' = "no_filters"
              /\ user_data' = user_data
              /\ submitted' = None
         ELSE TRUE]_vars

\* C3: no FilterSet holds a start date later than its end date.
C3_DatesOrdered ==
    (HasFilters /\ HasDates(Filters)) =>
        DateLeq(ParseDate(Get(Filters.date_from)), ParseDate(Get(Filters.date_to)))

\* C4: in CHOOSING_FILTER and after the conversation has ended the two
\* dates are both set or both unset.
C4_DatesBothOrNeither ==
    (HasFilters /\ conv \in {CHOOSING_FILTER, END}) =>
        ((Filters.date_from = None) <=> (Filters.date_to = None))

SearchState == Get(user_data.search_state)

HasSearchState == user_data.search_state # None

\* C5: the cursor of a SearchState is an index of its result list.
C5_CursorInResults ==
    HasSearchState =>
        /\ 0 <= SearchState.current_index
        /\ SearchState.current_index < Len(SearchState.results)

\* C6: advances past the end leave the cursor at the length of the result
\* list, never beyond it.
C6_CursorClamped ==
    HasSearchState => SearchState.current_index <= Len(SearchState.results)

ComparisonList == ListOf(user_data)

\* C8: the comparison list never holds more than MAX_PAPERS_TO_COMPARE
\* papers.
C8_AtMostThreePapers == Len(ComparisonList) <= MAX_PAPERS_TO_COMPARE

\* C9: no two members of the comparison list share an identifier, and an
\* add that is answered 'already in your comparison list' leaves the list
\* as it was.
C9_NoDuplicatePaper ==
    /\ [](\A i, j \in 1..Len(ComparisonList) :
              ComparisonList[i] = ComparisonList[j] => i = j)
    /\ [][reply' = "already_in_list" =>
              /\ ComparisonList # <<>>
              /\ ListOf(user_data') = ComparisonList]_vars

\* C9 witness: an add was refused as a duplicate
C9_Witness == reply = "already_in_list" /\ Len(ComparisonList) >= 2

\* the answers of generate_comparison past the subscription check
CompareReplies == {"daily_limit", "no_papers", "need_two_papers", "compare_failed", "compared"}

\* the session generate_comparison works on
SessionOf(ud) == IF ud.session = None THEN NewSession ELSE Get(ud.session)

\* a comparison request on fewer than two papers: no comparison, the list
\* kept, the counter not raised
RefusedQuietly ==
    /\ reply' # "compared"
    /\ user_data'.papers_to_compare = user_data.papers_to_compare
    /\ SessionOf(user_data').comparison_count <= SessionOf(user_data).comparison_count

\* C10 as claimed: a comparison request on fewer than two papers answers
\* 'no papers' or 'need at least 2', makes no comparison, does not raise
\* the counter and keeps the list.
C10_TooFewAlwaysNamed ==
    [][(reply' \in CompareReplies /\ Len(ComparisonList) < 2) =>
           /\ reply' \in {"no_papers", "need_two_papers"}
           /\ RefusedQuietly]_vars

\* C10 as amended: a comparison request on fewer than two papers makes no
\* comparison, does not raise the counter and keeps the list; it answers
\* 'no papers' for an empty list and 'need at least 2' for one paper,
\* unless the session is at its daily limit, which is answered first.
C10_TooFewRefused ==
    [][(reply' \in CompareReplies /\ Len(ComparisonList) < 2) =>
           /\ reply' = (IF ~can_compare(SessionOf(user_data)) THEN "daily_limit"
                        ELSE IF ComparisonList = <<>> THEN "no_papers"
                        ELSE "need_two_papers")
           /\ RefusedQuietly]_vars

\* C10 witness: one paper listed and the request answered 'need at least 2'
C10_Witness == reply = "need_two_papers" /\ Len(ComparisonList) = 1

\* the entries of a list
Elems(list) == { list[i] : i \in 1..Len(list) }

\* a step of handle_category_toggle on the token c
ToggleStep(c) == conv = CHOOSING_FILTER /\ HasFilters /\ toggle_category(c)

PlainSubmitted == submitted # None /\ Get(submitted).origin \in {"command", "simple"}

C13_BackAlwaysToMenu ==
    [][back_to_filters => (conv' = CHOOSING_FILTER /\ Filters' = Filters)]_vars

\* C13 as amended: back_to_filters leaves the FilterSet and the rest of
\* user_data as they were; it leads to CHOOSING_FILTER when the menu is
\* displayed and ends the conversation when displaying the menu fails.
C13_BackKeepsFilters ==
    [][back_to_filters =>
          /\ user_data' = user_data
          /\ Filters' = Filters
          /\ reply' \in {"menu", "menu_error"}
          /\ conv' = (IF reply' = "menu" THEN CHOOSING_FILTER ELSE END)]_vars

\* C13 witness: back from ENTER_DATE_TO, the start date typed and kept
C13_Witness ==
    /\ conv = CHOOSING_FILTER
    /\ reply = "menu"
    /\ HasFilters
    /\ Filters.date_from # None
    /\ Filters.date_to = None
    /\ user_data.awaiting_date_to = Some(TRUE)

\* C14: cancel ends the conversation from every state, whether or not the
\* user could be notified.
C14_CancelAlwaysEnds == [][cancel_search => conv' = END]_vars

\* C15: a citations_<n> choice made in CHOOSING_FILTER stores n as
\* min_citations, keeps the conversation in CHOOSING_FILTER and leaves the
\* other filters as they were.
C15_CitationsChoiceStored ==
    [][\A n \in CitationChoices :
          (conv = CHOOSING_FILTER /\ citations_callback(n)) =>
              /\ Filters'.min_citations = Some(n)
              /\ conv' = CHOOSING_FILTER
              /\ [Filters' EXCEPT !.min_citations = Filters.min_citations] = Filters]_vars

\* a step of handle_date_input for a predefined range
PredefinedStep(option) ==
    /\ conv = ENTER_DATE_FROM
    /\ HasFilters
    /\ reply' \in {"menu", "menu_error"}
    /\ predefined_range_chosen(option)

\* the dates of a FilterSet that holds both
FromDate(filters) == ParseDate(Get(filters.date_from))

ToDate(filters) == ParseDate(Get(filters.date_to))

\* the calendar date, written YYYY-MM-DD with two-digit month and day
IsPaddedDateText(s) ==
    /\ Len(s) = 10
    /\ s[5] = "-" /\ s[8] = "-"
    /\ \A i \in {1, 2, 3, 4, 6, 7, 9, 10} : IsDigit(s[i])
    /\ IsValidDateText(s)

\* both dates written by a predefined range: today as the end date and a
\* start date the given number of days earlier
RangeWritten(filters, days) ==
    /\ HasDates(filters)
    /\ IsPaddedDateText(Get(filters.date_from))
    /\ IsPaddedDateText(Get(filters.date_to))
    /\ ToDate(filters) \in NowDates
    /\ ToOrdinal(ToDate(filters)) - ToOrdinal(FromDate(filters)) = days
    /\ DateLeq(FromDate(filters), ToDate(filters))

\* C16 as claimed: a predefined range writes both dates, seven days apart
\* for 'Last Week', and the conversation is in CHOOSING_FILTER.
C16_RangeBackToMenu ==
    [][\A option \in {"week", "month", "year"} :
          PredefinedStep(option) =>
              /\ RangeWritten(Filters', IF option = "week" THEN 7
                                        ELSE IF option = "month" THEN 30 ELSE 365)
              /\ conv' = CHOOSING_FILTER]_vars

\* C16 as amended: a predefined range writes both dates in one step, seven
\* days apart for 'Last Week', and never leads to ENTER_DATE_TO; the
\* conversation is in CHOOSING_FILTER when the menu is displayed and has
\* ended when displaying it failed, the dates written all the same.
C16_RangeWrittenAtOnce ==
    [][\A option \in {"week", "month", "year"} :
          PredefinedStep(option) =>
              /\ RangeWritten(Filters', IF option = "week" THEN 7
                                        ELSE IF option = "month" THEN 30 ELSE 365)
              /\ [Filters' EXCEPT !.date_from = Filters.date_from,
                                  !.date_to = Filters.date_to] = Filters
              /\ reply' \in {"menu", "menu_error"}
              /\ conv' = (IF reply' = "menu" THEN CHOOSING_FILTER ELSE END)]_vars

\* C16 witness: 'Last Week' chosen on 2024-03-01 and the menu displayed
C16_Witness ==
    /\ conv = CHOOSING_FILTER
    /\ reply = "menu"
    /\ HasFilters
    /\ Filters.date_from = Some(<<"2", "0", "2", "4", "-", "0", "2", "-", "2", "3">>)
    /\ Filters.date_to = Some(<<"2", "0", "2", "4", "-", "0", "3", "-", "0", "1">>)

\* every category id and subcategory id of the taxonomy
TaxonomyIds == UNION { {c.id} \cup c.subcategories : c \in ARXIV_CATEGORIES }

RECURSIVE Reverse(_)
Reverse(list) == IF list = <<>> THEN <<>> ELSE Reverse(Tail(list)) \o <<Head(list)>>

\* the query handle_filter_execute and execute_search make of a FilterSet
CompiledQuery(filters) ==
    final_query(Join(S_space, <<search_query(filters)>>), Some(filters))

NonBlank(query) == \E i \in 1..Len(query) : query[i] \notin {"(", ")", " "}

Compact(text) == SelectSeq(text, LAMBDA c : c # "-")

\* the range clause expected for two stored dates
ExpectedDateClause(filters) ==
    <<"s", "u", "b", "m", "i", "t", "t", "e", "d", "D", "a", "t", "e", ":", "[">>
        \o Compact(Get(filters.date_from)) \o <<" ", "T", "O", " ">>
        \o Compact(Get(filters.date_to)) \o <<"]">>

C21_StartDateStored ==
    [][\A text \in DateTexts :
          (conv = ENTER_DATE_FROM /\ reply = "enter_start_date" /\ IsPaddedDateText(text)
               /\ custom_date_message(text, TRUE)) =>
              /\ Filters'.date_from = Some(text)
              /\ conv' = ENTER_DATE_TO]_vars

\* C22: a text that is no date, typed in ENTER_DATE_FROM or ENTER_DATE_TO
\* and answered by the handler, leaves the conversation in the state it was
\* in, is answered 'Invalid date format' and leaves the FilterSet as it
\* was.
C22_MalformedRejectedInPlace ==
    [][\A text \in DateTexts :
          (conv \in {ENTER_DATE_FROM, ENTER_DATE_TO} /\ ~IsValidDateText(Strip(text))
               /\ custom_date_message(text, TRUE)) =>
              /\ conv' = conv
              /\ reply' = "invalid_date"
              /\ Filters' = Filters]_vars

\* a text without a character other than the blank
Blank(text) == \A i \in 1..Len(text) : text[i] = " "

\* a text from its first to its last character other than the blank
Trimmed(text) ==
    LET inked == { i \in 1..Len(text) : text[i] # " " }
    IN  IF inked = {} THEN <<>>
        ELSE SubSeq(text, CHOOSE i \in inked : \A j \in inked : i <= j,
                          CHOOSE i \in inked : \A j \in inked : j <= i)

\* a text typed in ENTER_AUTHOR once a match mode is chosen and recorded
AuthorStep(text, tx) ==
    /\ conv = ENTER_AUTHOR
    /\ user_data.awaiting_author = Some(TRUE)
    /\ user_data.author_type # None
    /\ author_text(text, tx)

\* the author of every FilterSet is unset or holds a character other than
\* the blank
AuthorNonEmpty ==
    HasFilters => (Filters.author = None \/ ~Blank(Get(Filters.author)))

FailedEditReplies ==
    {"date_reply_failed", "date_error", "menu_error", "author_error", "toggle_failed"}

\* the conversation state and the awaiting_date_to marker name the same
\* date as the one expected next
MarkersAgree(state, ud) ==
    /\ state = ENTER_DATE_FROM => ud.awaiting_date_to = None
    /\ state = ENTER_DATE_TO => ud.awaiting_date_to # None

\* C24: a filter-editing transition whose display call fails, taken where
\* the conversation state and the marker agree on the date expected next,
\* leaves them in agreement.
C24_FailedDisplayKeepsAgreement ==
    [][(reply' \in FailedEditReplies /\ MarkersAgree(conv, user_data)) =>
           MarkersAgree(conv', user_data')]_vars

\* what a search answers when it raised or found nothing
FailedSearchReplies == {"search_error", "no_results", "latest_error", "no_latest"}

\* C25: a search that is answered with an error or with 'no papers found'
\* leaves the SearchState the session holds and its FilterSet as they were.
C25_FailedSearchKeepsState ==
    [][(HasSearchState /\ reply' \in FailedSearchReplies) =>
           /\ user_data'.search_state = user_data.search_state
           /\ user_data'.advanced_filters = user_data.advanced_filters]_vars

\* C26: a search that renders its first result has replaced the SearchState
\* by the list it found, with that result first and the cursor at 0,
\* whatever the SearchState was before; whenever a search changes the
\* SearchState, the new one holds a result list and the cursor 0; no
\* SearchState holds an empty result list.
C26_SearchReplacesState ==
    /\ [](HasSearchState => SearchState.results # <<>>)
    /\ [][(submitted' # None /\ reply' = "result_shown") =>
              /\ user_data'.search_state # None
              /\ Get(user_data'.search_state).results \in ResultLists
              /\ Get(user_data'.search_state).current_index = 0
              /\ shown' = Some(Get(user_data'.search_state).results[1])
              /\ advances' = 0]_vars
    /\ [][(submitted' # None /\ user_data'.search_state # user_data.search_state) =>
              /\ user_data'.search_state # None
              /\ Get(user_data'.search_state).results \in ResultLists
              /\ Get(user_data'.search_state).current_index = 0]_vars

\* C26 witness: the latest papers, two of them, after an earlier search
C26_Witness ==
    /\ HasSearchState
    /\ submitted # None
    /\ Get(submitted).origin = "latest"
    /\ reply = "result_shown"
    /\ Len(SearchState.results) = 2
    /\ SearchState.current_index = 0
    /\ shown = Some(SearchState.results[1])

\* C27: a comparison that was generated and delivered leaves the
\* comparison list empty; /clear_comparison leaves it empty; a comparison
\* that failed leaves the list as it was, two papers or more.
C27_ListClearedOrKept ==
    /\ [](reply \in {"compared", "comparison_cleared"} => ComparisonList = <<>>)
    /\ [][reply' = "compared" => Len(ComparisonList) >= 2]_vars
    /\ [][reply' = "compare_failed" =>
              /\ Len(ComparisonList) >= 2
              /\ user_data'.papers_to_compare = user_data.papers_to_compare]_vars

\* C27 witness: a comparison failed and the two papers are still listed
C27_Witness == reply = "compare_failed" /\ Len(ComparisonList) = 2

Counter(ud) == SessionOf(ud).comparison_count

\* days since the last recorded comparison
IdleDays(ud) == SessionOf(ud).idle_days

\* C29: the comparison counter never exceeds 10; it grows only by a
\* comparison that was generated and delivered, by one from its value or
\* from 0 when a day has passed; a request made with the counter at 10 and
\* less than a day after the last recorded comparison is answered 'daily
\* limit', generates nothing and keeps the list and the counter; the
\* counter falls only when a day or more has passed since the last
\* recorded comparison.
C29_CounterWithinLimit ==
    /\ [](Counter(user_data) <= 10)
    /\ [][Counter(user_data') > Counter(user_data) => reply' = "compared"]_vars
    /\ [][reply' = "compared" =>
              Counter(user_data') =
                  (IF IdleDays(user_data) >= 1 THEN 0 ELSE Counter(user_data)) + 1]_vars
    /\ [][(reply' \in CompareReplies /\ Counter(user_data) >= 10 /\ IdleDays(user_data) = 0) =>
              /\ reply' = "daily_limit"
              /\ user_data'.papers_to_compare = user_data.papers_to_compare
              /\ Counter(user_data') = Counter(user_data)]_vars
    /\ [][Counter(user_data') < Counter(user_data) => IdleDays(user_data) >= 1]_vars

\* C29 witness: the tenth comparison counted and the next request, two
\* papers listed, answered 'daily limit'
C29_Witness ==
    /\ reply = "daily_limit"
    /\ Counter(user_data) = 10
    /\ Len(ComparisonList) >= 2

\* the FilterSet holds no date
NoDates(filters) == filters.date_from = None /\ filters.date_to = None

\* a step of handle_date_input for 'Custom'
CustomStep ==
    /\ conv = ENTER_DATE_FROM
    /\ HasFilters
    /\ reply' \in {"enter_start_date", "date_error"}
    /\ custom_range_chosen

====
